---- MODULE Spec2Model ----
(***************************************************************************)
(* OAuth2 token broker: the credential store (oauth_tokens table), the     *)
(* access-token manager and the HTTP handlers that drive them.             *)
(*                                                                         *)
(* Handlers are coroutines on one event loop: a handler runs atomically    *)
(* from one await of a network call to the next, so every action below is  *)
(* one such segment.  The requests suspended in a network call are the bag *)
(* inflight.                                                               *)
(***************************************************************************)
EXTENDS Integers, Sequences, FiniteSets, Bags, TLC

(* ------------------------------ bounds -------------------------------- *)

\* the clock runs from 0 to MaxTime seconds
MaxTime == 1

\* at most MaxInflight requests are suspended in a network call at once
MaxInflight == 2

\* u0 consented before the run starts; u1 goes through consent during it
Users == {"u0", "u1"}
Consenting == {"u1"}

\* what the authorization server may put in a token response
AccessTokens == {"A1", "A2"}
RefreshTokens == {"R1", "R2"}
ExpiresIns == {20, 61}
ScopeStrings == {"drive docs"}

\* the settings of the deployment under study (core/config.py): a window of
\* RATE_LIMIT_WINDOW_SECONDS seconds, at most RATE_LIMIT_MAX_PER_KEY requests
\* per caller and RATE_LIMIT_MAX_PER_USER per (caller, user) in a window
RATE_LIMIT_WINDOW_SECONDS == 3
RATE_LIMIT_MAX_PER_KEY == 3
RATE_LIMIT_MAX_PER_USER == 2

\* the limiter is watched from 0 to LimitHorizon seconds, and takes at most
\* MaxCalls calls per key between two window boundaries
LimitHorizon == 4
MaxCalls == 4

(* --------------------------- Python values ---------------------------- *)

\* Python's None where a str is expected
None == "None"

\* Python's None where a datetime is expected; a datetime t is <<t>>
NoDate == <<>>

Dt(t) == <<t>>

\* bool(x) of a str | None
Truthy(x) == x # None /\ x # ""

Max(a, b) == IF a >= b THEN a ELSE b

(* ------------------------------ crypto.py ----------------------------- *)

Plaintexts == AccessTokens \cup RefreshTokens

encrypt_str(plaintext) ==
    IF plaintext = None THEN "" ELSE "fernet:" \o plaintext

\* an InvalidToken (no plaintext encrypts to the token) gives None
decrypt_str(token) ==
    IF ~Truthy(token) THEN None
    ELSE IF \E p \in Plaintexts : encrypt_str(p) = token
         THEN CHOOSE p \in Plaintexts : encrypt_str(p) = token
         ELSE None

(* ------------------------- scope string and JSON ---------------------- *)

\* str.split() of the space-delimited scope strings of the model
split(scope) ==
    CASE scope = "drive docs" -> <<"drive", "docs">>
      [] scope = "drive" -> <<"drive">>
      [] OTHER -> <<>>

ScopeLists == {<<>>, <<"drive">>, <<"drive", "docs">>}

RECURSIVE json_items(_)
json_items(l) ==
    IF l = <<>> THEN ""
    ELSE IF Len(l) = 1 THEN "\"" \o Head(l) \o "\""
    ELSE "\"" \o Head(l) \o "\", " \o json_items(Tail(l))

json_dumps(l) == "[" \o json_items(l) \o "]"

json_valid(text) == \E l \in ScopeLists : json_dumps(l) = text

json_loads(text) == CHOOSE l \in ScopeLists : json_dumps(l) = text

_scopes_list(scopes_json) ==
    IF ~Truthy(scopes_json) THEN <<>>
    ELSE IF json_valid(scopes_json) THEN json_loads(scopes_json)
    ELSE <<>>

(* -------------------------------- state ------------------------------- *)

VARIABLES
    now,        \* the wall clock, in seconds
    db,         \* the rows of table oauth_tokens
    inflight,   \* bag of the requests suspended in a network call
    last,       \* what the latest handler segment did and returned: op names
                \* the handler, op_resumed its segment after the await; again
                \* says that a clear directly follows a clear of the same user
    _counters,  \* ratelimit.py: limiter key -> <<window start, count>>
    window_calls,   \* observer: per limiter key, the calls of _bump made and
                    \* the calls that passed since the last window boundary
    retry_at,       \* observer: per limiter key, the time that the latest
                    \* retry hint given on the key points to, or NoDate
    accepted_state  \* observer: a state token that a callback has accepted,
                    \* or <<>>

vars == <<now, db, inflight, last, _counters, window_calls, retry_at, accepted_state>>

\* what the handlers of the credential store never touch
aux == <<_counters, window_calls, retry_at, accepted_state>>

Ev(op, user, outcome, access_token, refresh_token, expires_at, scopes) ==
    [op |-> op, user |-> user, outcome |-> outcome,
     access_token |-> access_token, refresh_token |-> refresh_token,
     expires_at |-> expires_at, scopes |-> scopes, again |-> FALSE]

Plain(op, user, outcome) == Ev(op, user, outcome, None, None, NoDate, <<>>)

(* ------------------------- models.py, session.py ---------------------- *)

\* NOT NULL on user_id and access_token_enc, UNIQUE(user_id), primary key id
ConstraintsHold(t) ==
    /\ \A r \in t : r.user_id # None /\ r.access_token_enc # None
    /\ \A r1, r2 \in t : (r1.user_id = r2.user_id \/ r1.id = r2.id) => r1 = r2

\* db.commit(): the pending table is stored, or the transaction fails whole
commit(t, pending) ==
    IF ConstraintsHold(pending)
    THEN [db |-> pending, err |-> None]
    ELSE [db |-> t, err |-> "IntegrityError"]

\* mutant: the query without its filter on user_id
query_unfiltered(t, user_id) == t

\* db.query(OAuthToken).filter(OAuthToken.user_id == user_id)
query(t, user_id) == {r \in t : r.user_id = user_id}

NextId(t) == Cardinality(t) + 1

(* ------------------------------ tokens.py ----------------------------- *)

\* mutant: the refresh token is overwritten whether or not one was supplied
upsert_row_overwrite(t, user_id, access_token, refresh_token, expires_at, scope) ==
    LET scopes_json == json_dumps(IF Truthy(scope) THEN split(scope) ELSE <<>>)
        found == query(t, user_id)
        row == [id |-> NextId(t),
                user_id |-> user_id,
                access_token_enc |-> encrypt_str(access_token),
                refresh_token_enc |->
                    IF Truthy(refresh_token) THEN encrypt_str(refresh_token) ELSE "",
                expires_at |-> expires_at,
                scopes_json |-> scopes_json]
    IN  IF found = {}
        THEN t \cup {row}
        ELSE {IF r \in found THEN [row EXCEPT !.id = r.id] ELSE r : r \in t}

\* mutant: the condition on the supplied refresh token is inverted
upsert_row_inverted(t, user_id, access_token, refresh_token, expires_at, scope) ==
    LET scopes_json == json_dumps(IF Truthy(scope) THEN split(scope) ELSE <<>>)
        found == query(t, user_id)
    IN  IF found = {}
        THEN t \cup {[id |-> NextId(t),
                      user_id |-> user_id,
                      access_token_enc |-> encrypt_str(access_token),
                      refresh_token_enc |->
                          IF Truthy(refresh_token) THEN encrypt_str(refresh_token) ELSE "",
                      expires_at |-> expires_at,
                      scopes_json |-> scopes_json]}
        ELSE {IF r \in found
              THEN [r EXCEPT !.access_token_enc = encrypt_str(access_token),
                             !.refresh_token_enc =
                                 IF Truthy(refresh_token) THEN r.refresh_token_enc
                                 ELSE encrypt_str(refresh_token),
                             !.expires_at = expires_at,
                             !.scopes_json = scopes_json]
              ELSE r : r \in t}

upsert_row(t, user_id, access_token, refresh_token, expires_at, scope) ==
    LET scopes_json == json_dumps(IF Truthy(scope) THEN split(scope) ELSE <<>>)
        found == query(t, user_id)
    IN  IF found = {}
        THEN t \cup {[id |-> NextId(t),
                      user_id |-> user_id,
                      access_token_enc |-> encrypt_str(access_token),
                      refresh_token_enc |->
                          IF Truthy(refresh_token) THEN encrypt_str(refresh_token) ELSE "",
                      expires_at |-> expires_at,
                      scopes_json |-> scopes_json]}
        ELSE {IF r \in found
              THEN [r EXCEPT !.access_token_enc = encrypt_str(access_token),
                             !.refresh_token_enc =
                                 IF Truthy(refresh_token) THEN encrypt_str(refresh_token)
                                 ELSE r.refresh_token_enc,
                             !.expires_at = expires_at,
                             !.scopes_json = scopes_json]
              ELSE r : r \in t}

\* mutant: a plain insert into a table without the unique constraint
upsert_tokens_insert(t, user_id, access_token, refresh_token, expires_at, scope) ==
    [db |-> t \cup {[id |-> NextId(t),
                     user_id |-> user_id,
                     access_token_enc |-> encrypt_str(access_token),
                     refresh_token_enc |->
                         IF Truthy(refresh_token) THEN encrypt_str(refresh_token) ELSE "",
                     expires_at |-> expires_at,
                     scopes_json |-> "[]"]},
     err |-> None]

upsert_tokens(t, user_id, access_token, refresh_token, expires_at, scope) ==
    IF Cardinality(query(t, user_id)) > 1
    THEN [db |-> t, err |-> "MultipleResultsFound"]
    ELSE commit(t, upsert_row(t, user_id, access_token, refresh_token, expires_at, scope))

clear_row(t, user_id) ==
    {IF r.user_id = user_id
     THEN [r EXCEPT !.access_token_enc = None,
                    !.refresh_token_enc = None,
                    !.expires_at = NoDate]
     ELSE r : r \in t}

\* mutant: the row is deleted instead of blanked
clear_tokens_delete(t, user_id) ==
    IF query(t, user_id) = {}
    THEN [db |-> t, ret |-> "False", err |-> None]
    ELSE [db |-> t \ query(t, user_id), ret |-> "True", err |-> None]

\* ret is "False", "True", or "raise" when the call ends in an exception
clear_tokens(t, user_id) ==
    IF Cardinality(query(t, user_id)) > 1
    THEN [db |-> t, ret |-> "raise", err |-> "MultipleResultsFound"]
    ELSE IF query(t, user_id) = {}
    THEN [db |-> t, ret |-> "False", err |-> None]
    ELSE LET c == commit(t, clear_row(t, user_id))
         IN  [db |-> c.db, ret |-> IF c.err = None THEN "True" ELSE "raise", err |-> c.err]

(* --------------------------- google_oauth.py -------------------------- *)

ExpirySkew == 30

\* datetime.now(timezone.utc) + timedelta(seconds=max(0, expires_in - 30))
\* mutant: the skew is subtracted from lifetimes below it too
skewed_expiry_unclamped(t, expires_in) == Dt(t + expires_in - ExpirySkew)

skewed_expiry(t, expires_in) == Dt(t + Max(0, expires_in - ExpirySkew))

\* the JSON body of a 200 from the token endpoint, code exchange grant
TokenJson ==
    [access_token : AccessTokens \cup {None},
     refresh_token : RefreshTokens \cup {None},
     expires_in : ExpiresIns,
     scope : ScopeStrings \cup {None}]

\* the same for the refresh grant: refresh_access_token reads no refresh_token
RefreshJson ==
    [access_token : AccessTokens \cup {None},
     expires_in : ExpiresIns,
     scope : ScopeStrings \cup {None}]

\* the client settings of the deployment
GOOGLE_CLIENT_ID == "client-id"
GOOGLE_CLIENT_SECRET == "client-secret"

_ensure_client_config ==
    IF ~Truthy(GOOGLE_CLIENT_ID) \/ ~Truthy(GOOGLE_CLIENT_SECRET)
    THEN "RuntimeError" ELSE None

\* what the token endpoint may answer to a grant sent on its own: a status
\* and, in the body, an access token and a lifetime
GrantResponses ==
    [status : {200, 400}, access_token : {"A1", None}, expires_in : {0, 20, 30, 61}]

\* mutant: the request is sent whatever the refresh token
refresh_access_token_begin_unchecked(refresh_token) ==
    IF _ensure_client_config # None THEN "RuntimeError" ELSE "await"

\* refresh_access_token up to its await of the token endpoint
refresh_access_token_begin(refresh_token) ==
    IF _ensure_client_config # None THEN "RuntimeError"
    ELSE IF ~Truthy(refresh_token) THEN "ValueError"
    ELSE "await"

\* refresh_access_token and exchange_code_for_tokens from the response on,
\* when it arrives at time t: they raise, or return these fields
grant_end(resp, t) ==
    IF resp.status # 200
    THEN [error |-> "RuntimeError", access_token |-> None, expires_at |-> NoDate]
    ELSE [error |-> None, access_token |-> resp.access_token,
          expires_at |-> skewed_expiry(t, resp.expires_in)]

(* -------------------------- access_tokens.py -------------------------- *)

Skew == 30

\* mutant: the difference is taken the wrong way round
needs_refresh_sign(row, t) ==
    IF row.expires_at # NoDate
    THEN (t - row.expires_at[1]) <= Skew
    ELSE TRUE

\* mutant: a token exactly Skew seconds from expiry still counts as fresh
needs_refresh_strict(row, t) ==
    IF row.expires_at # NoDate
    THEN (row.expires_at[1] - t) < Skew
    ELSE TRUE

\* mutant: an unknown expiry counts as fresh
needs_refresh_default_false(row, t) ==
    IF row.expires_at # NoDate
    THEN (row.expires_at[1] - t) <= Skew
    ELSE FALSE

needs_refresh(row, t) ==
    IF row.expires_at # NoDate
    THEN (row.expires_at[1] - t) <= Skew
    ELSE TRUE

\* ensure_access_token up to its await of refresh_access_token
ensure_begin(t, user_id, clock) ==
    LET found == query(t, user_id) IN
    IF Cardinality(found) > 1 THEN Plain("token", user_id, "MultipleResultsFound")
    ELSE IF found = {} THEN Plain("token", user_id, "TokenNotFound")
    ELSE LET row == CHOOSE r \in found : TRUE IN
         IF ~needs_refresh(row, clock)
         THEN Ev("token", user_id, "fresh", decrypt_str(row.access_token_enc), None,
                 row.expires_at, _scopes_list(row.scopes_json))
         ELSE IF ~Truthy(row.refresh_token_enc)
         THEN Plain("token", user_id, "ReconnectRequired")
         ELSE IF ~Truthy(decrypt_str(row.refresh_token_enc))
         THEN Plain("token", user_id, "ValueError")
         ELSE Ev("token", user_id, "await_refresh", None,
                 decrypt_str(row.refresh_token_enc), NoDate, <<>>)

(* ------------------------------ config.py ----------------------------- *)

API_INTERNAL_KEY == "secret"
INTERNAL_ALLOWED_IPS == <<"10.0.0.0/8", "192.0.2.7">>

\* what a client may send as X-API-Key, and the addresses it may come from
ApiKeys == {API_INTERNAL_KEY, "guess", None}
ClientIps == {"10.0.0.1", "192.0.2.7", "203.0.113.9"}

(* ----------------------------- ratelimit.py -------------------------- *)

\* the keys of _counters that requests with the shared secret touch
LimiterKeys ==
    {<<"key", API_INTERNAL_KEY>>} \cup {<<"user", API_INTERNAL_KEY, u>> : u \in Users}

\* mutant: the stored count stops one above the limit
_bump_saturating(c, key, max_requests, window_seconds, t) ==
    LET window == t - (t % window_seconds)
        got == IF key \in DOMAIN c THEN c[key] ELSE <<window, 0>>
        reset == IF got[1] # window THEN <<window, 0>> ELSE got
        start == reset[1]
        count == reset[2] + 1
        remaining == max_requests - count
        retry_after == start + window_seconds - t
    IN  [counters |-> [k \in DOMAIN c \cup {key} |->
                          IF k = key
                          THEN <<start, IF count > max_requests + 1
                                        THEN max_requests + 1 ELSE count>>
                          ELSE c[k]],
         status |-> IF remaining < 0 THEN 429 ELSE 200,
         retry_after |-> IF remaining < 0 THEN ToString(Max(0, retry_after)) ELSE None]

\* mutant: a rejected call leaves the counter as it was
_bump_drop_rejected(c, key, max_requests, window_seconds, t) ==
    LET window == t - (t % window_seconds)
        got == IF key \in DOMAIN c THEN c[key] ELSE <<window, 0>>
        reset == IF got[1] # window THEN <<window, 0>> ELSE got
        start == reset[1]
        count == reset[2] + 1
        remaining == max_requests - count
        retry_after == start + window_seconds - t
    IN  [counters |-> IF remaining < 0 THEN c
                      ELSE [k \in DOMAIN c \cup {key} |->
                               IF k = key THEN <<start, count>> ELSE c[k]],
         status |-> IF remaining < 0 THEN 429 ELSE 200,
         retry_after |-> IF remaining < 0 THEN ToString(Max(0, retry_after)) ELSE None]

\* mutant: the window start is never compared, the count is never reset
_bump_no_reset(c, key, max_requests, window_seconds, t) ==
    LET window == t - (t % window_seconds)
        got == IF key \in DOMAIN c THEN c[key] ELSE <<window, 0>>
        start == got[1]
        count == got[2] + 1
        remaining == max_requests - count
        retry_after == start + window_seconds - t
    IN  [counters |-> [k \in DOMAIN c \cup {key} |->
                          IF k = key THEN <<start, count>> ELSE c[k]],
         status |-> IF remaining < 0 THEN 429 ELSE 200,
         retry_after |-> IF remaining < 0 THEN ToString(Max(0, retry_after)) ELSE None]

\* mutant: the hint is the time spent in the window, not the time left in it
_bump_elapsed_hint(c, key, max_requests, window_seconds, t) ==
    LET window == t - (t % window_seconds)
        got == IF key \in DOMAIN c THEN c[key] ELSE <<window, 0>>
        reset == IF got[1] # window THEN <<window, 0>> ELSE got
        start == reset[1]
        count == reset[2] + 1
        remaining == max_requests - count
        retry_after == t - start
    IN  [counters |-> [k \in DOMAIN c \cup {key} |->
                          IF k = key THEN <<start, count>> ELSE c[k]],
         status |-> IF remaining < 0 THEN 429 ELSE 200,
         retry_after |-> IF remaining < 0 THEN ToString(Max(0, retry_after)) ELSE None]

\* _bump at clock t on the counters c: the counters it leaves, 429 when it
\* raises, and the Retry-After header it raises with
_bump(c, key, max_requests, window_seconds, t) ==
    LET window == t - (t % window_seconds)
        got == IF key \in DOMAIN c THEN c[key] ELSE <<window, 0>>
        reset == IF got[1] # window THEN <<window, 0>> ELSE got
        start == reset[1]
        count == reset[2] + 1
        remaining == max_requests - count
        retry_after == start + window_seconds - t
    IN  [counters |-> [k \in DOMAIN c \cup {key} |->
                          IF k = key THEN <<start, count>> ELSE c[k]],
         status |-> IF remaining < 0 THEN 429 ELSE 200,
         retry_after |-> IF remaining < 0 THEN ToString(Max(0, retry_after)) ELSE None]

\* limit_by_api_key and limit_by_user: 401 without a key, else _bump
limit_by_api_key(c, x_api_key, t) ==
    IF ~Truthy(x_api_key)
    THEN [counters |-> c, status |-> 401, retry_after |-> None]
    ELSE _bump(c, <<"key", x_api_key>>, RATE_LIMIT_MAX_PER_KEY,
               RATE_LIMIT_WINDOW_SECONDS, t)

limit_by_user(c, user_id, x_api_key, t) ==
    IF ~Truthy(x_api_key)
    THEN [counters |-> c, status |-> 401, retry_after |-> None]
    ELSE _bump(c, <<"user", x_api_key, user_id>>, RATE_LIMIT_MAX_PER_USER,
               RATE_LIMIT_WINDOW_SECONDS, t)

(* ----------------------------- internal.py ---------------------------- *)

\* the addresses of ClientIps inside a network written in CIDR notation
ip_network(entry) ==
    CASE entry = "10.0.0.0/8" -> {"10.0.0.1"}
      [] OTHER -> {}

_ip_allowed(client_ip, allowed) ==
    IF allowed = <<>> THEN TRUE
    ELSE \E i \in 1..Len(allowed) :
            client_ip = allowed[i] \/ client_ip \in ip_network(allowed[i])

\* mutant: the address of the client is not looked at
require_internal_any_ip(x_api_key, client_ip) ==
    IF ~Truthy(x_api_key) \/ x_api_key # API_INTERNAL_KEY THEN 401 ELSE 200

\* mutant: any key is let in
require_internal_open(x_api_key, client_ip) == 200

require_internal(x_api_key, client_ip) ==
    IF ~Truthy(x_api_key) \/ x_api_key # API_INTERNAL_KEY THEN 401
    ELSE IF ~_ip_allowed(client_ip, INTERNAL_ALLOWED_IPS) THEN 403
    ELSE 200

(* ------------------------------ state.py ------------------------------ *)

\* the clock times at which state tokens are issued and presented, the
\* nonces os.urandom gives, and what callers pass as ttl_seconds: a Python
\* value is written <<type, value>>
StateClock == {0, 35, 36, 306}
Nonces == {"n1"}
TtlInputs ==
    {<<"int", -5>>, <<"int", 29>>, <<"int", 30>>, <<"int", 31>>,
     <<"str", "31">>, <<"str", "soon">>, <<"NoneType", None>>}

DefaultTtl == 300
MinTtl == 30
Leeway == 5

\* int(x): the integer, or an exception
py_int(x) ==
    CASE x[1] = "int" -> [ok |-> TRUE, value |-> x[2]]
      [] x[1] = "str" ->
            IF \E n \in 0..DefaultTtl : ToString(n) = x[2]
            THEN [ok |-> TRUE, value |-> CHOOSE n \in 0..DefaultTtl : ToString(n) = x[2]]
            ELSE [ok |-> FALSE, value |-> 0]
      [] OTHER -> [ok |-> FALSE, value |-> 0]

\* urlsafe base64 without padding, of a text
_b64e(text) == "b64(" \o text \o ")"

\* json.dumps(header) and json.dumps(payload) with separators (",", ":")
header_json == "{alg:HS256,typ:STATE}"

payload_json(payload) ==
    "{u:" \o payload.u \o ",p:" \o payload.p \o ",iat:" \o ToString(payload.iat)
        \o ",exp:" \o ToString(payload.exp) \o ",n:" \o payload.n \o "}"

\* HMAC-SHA256: one digest per (key, message), no two alike
hmac_sha256(key, message) == "hmac(" \o key \o "," \o message \o ")"

_sign(message) == _b64e(hmac_sha256(API_INTERNAL_KEY, message))

\* mutant: the signature covers the payload segment alone
create_state_signs_payload(user_id, ttl_seconds, t, nonce) ==
    IF ~Truthy(user_id) THEN [error |-> "user_id required", token |-> <<>>]
    ELSE LET c == py_int(ttl_seconds)
             coerced == IF c.ok THEN c.value ELSE DefaultTtl
             ttl == IF coerced < MinTtl THEN MinTtl ELSE coerced
             payload == [u |-> user_id, p |-> "google_oauth", iat |-> t,
                         exp |-> t + ttl, n |-> nonce]
             h == _b64e(header_json)
             p == _b64e(payload_json(payload))
             s == _sign(p)
         IN  [error |-> None, token |-> <<h, p, s>>]

\* mutant: a ttl below the floor is kept
create_state_no_floor(user_id, ttl_seconds, t, nonce) ==
    IF ~Truthy(user_id) THEN [error |-> "user_id required", token |-> <<>>]
    ELSE LET c == py_int(ttl_seconds)
             ttl == IF c.ok THEN c.value ELSE DefaultTtl
             payload == [u |-> user_id, p |-> "google_oauth", iat |-> t,
                         exp |-> t + ttl, n |-> nonce]
             h == _b64e(header_json)
             p == _b64e(payload_json(payload))
             s == _sign(h \o "." \o p)
         IN  [error |-> None, token |-> <<h, p, s>>]

\* create_state at clock t with nonce os.urandom(8); the token h.p.s is kept
\* as the list of its segments between the dots
create_state(user_id, ttl_seconds, t, nonce) ==
    IF ~Truthy(user_id) THEN [error |-> "user_id required", token |-> <<>>]
    ELSE LET c == py_int(ttl_seconds)
             coerced == IF c.ok THEN c.value ELSE DefaultTtl
             ttl == IF coerced < MinTtl THEN MinTtl ELSE coerced
             payload == [u |-> user_id, p |-> "google_oauth", iat |-> t,
                         exp |-> t + ttl, n |-> nonce]
             h == _b64e(header_json)
             p == _b64e(payload_json(payload))
             s == _sign(h \o "." \o p)
         IN  [error |-> None, token |-> <<h, p, s>>]

\* the payloads that a payload segment may decode to, and their segments
Lifetimes == {-5, 29, 30, 31, 300}

StatePayloads ==
    {[u |-> u, p |-> "google_oauth", iat |-> t, exp |-> t + d, n |-> n] :
        u \in Users, t \in StateClock, d \in Lifetimes, n \in Nonces}

\* payloads that create_state never builds and that a holder of the key can
\* sign: without user_id and expired from time 36 on, with another purpose,
\* without user_id and issued at time 306 with an expiry before it
CraftedPayloads ==
    {[u |-> "", p |-> "google_oauth", iat |-> 0, exp |-> 30, n |-> "n1"],
     [u |-> "u1", p |-> "other", iat |-> 0, exp |-> 30, n |-> "n1"],
     [u |-> "", p |-> "google_oauth", iat |-> 306, exp |-> 300, n |-> "n1"]}

DecodablePayloads == StatePayloads \cup CraftedPayloads

PayloadSegment == [payload \in DecodablePayloads |-> _b64e(payload_json(payload))]

\* json.loads(_b64d(p)): the payload, or an exception
payload_loads(p) ==
    IF \E payload \in DecodablePayloads : PayloadSegment[payload] = p
    THEN [ok |-> TRUE,
          payload |-> CHOOSE payload \in DecodablePayloads : PayloadSegment[payload] = p]
    ELSE [ok |-> FALSE, payload |-> <<>>]

\* a signature segment with a character outside ASCII, and str.isascii
NonAsciiSegment == "b64-with-e-acute"

isascii(text) == text # NonAsciiSegment

\* mutant: the signature is not compared
verify_state_unsigned(token, leeway_seconds, t) ==
    IF Len(token) # 3 THEN [error |-> "Malformed state", payload |-> <<>>]
    ELSE LET d == payload_loads(token[2])
         IN  IF ~d.ok THEN [error |-> "Invalid state payload", payload |-> <<>>]
             ELSE IF d.payload.p # "google_oauth"
             THEN [error |-> "Unexpected state purpose", payload |-> <<>>]
             ELSE IF d.payload.iat - t > leeway_seconds
             THEN [error |-> "State issued in the future", payload |-> <<>>]
             ELSE IF t - d.payload.exp > leeway_seconds
             THEN [error |-> "State expired", payload |-> <<>>]
             ELSE IF ~Truthy(d.payload.u)
             THEN [error |-> "Missing user_id in state", payload |-> <<>>]
             ELSE [error |-> None, payload |-> d.payload]

\* mutant: a token is expired from now - exp = leeway on
verify_state_early(token, leeway_seconds, t) ==
    IF Len(token) # 3 THEN [error |-> "Malformed state", payload |-> <<>>]
    ELSE LET h == token[1]
             p == token[2]
             s == token[3]
             expected == _sign(h \o "." \o p)
             d == payload_loads(p)
         IN  IF ~isascii(s) THEN [error |-> "TypeError", payload |-> <<>>]
             ELSE IF s # expected
             THEN [error |-> "Invalid state signature", payload |-> <<>>]
             ELSE IF ~d.ok THEN [error |-> "Invalid state payload", payload |-> <<>>]
             ELSE IF d.payload.p # "google_oauth"
             THEN [error |-> "Unexpected state purpose", payload |-> <<>>]
             ELSE IF d.payload.iat - t > leeway_seconds
             THEN [error |-> "State issued in the future", payload |-> <<>>]
             ELSE IF t - d.payload.exp >= leeway_seconds
             THEN [error |-> "State expired", payload |-> <<>>]
             ELSE IF ~Truthy(d.payload.u)
             THEN [error |-> "Missing user_id in state", payload |-> <<>>]
             ELSE [error |-> None, payload |-> d.payload]

\* verify_state at clock t: the StateError message (or the TypeError that
\* hmac.compare_digest raises on a non-ASCII str), or the payload
verify_state(token, leeway_seconds, t) ==
    IF Len(token) # 3 THEN [error |-> "Malformed state", payload |-> <<>>]
    ELSE LET h == token[1]
             p == token[2]
             s == token[3]
             expected == _sign(h \o "." \o p)
             d == payload_loads(p)
         IN  IF ~isascii(s) THEN [error |-> "TypeError", payload |-> <<>>]
             ELSE IF s # expected
             THEN [error |-> "Invalid state signature", payload |-> <<>>]
             ELSE IF ~d.ok THEN [error |-> "Invalid state payload", payload |-> <<>>]
             ELSE IF d.payload.p # "google_oauth"
             THEN [error |-> "Unexpected state purpose", payload |-> <<>>]
             ELSE IF d.payload.iat - t > leeway_seconds
             THEN [error |-> "State issued in the future", payload |-> <<>>]
             ELSE IF t - d.payload.exp > leeway_seconds
             THEN [error |-> "State expired", payload |-> <<>>]
             ELSE IF ~Truthy(d.payload.u)
             THEN [error |-> "Missing user_id in state", payload |-> <<>>]
             ELSE [error |-> None, payload |-> d.payload]

\* the payload that the payload segment of a token issued by create_state holds
PayloadOf(state) == payload_loads(state[2]).payload

\* the tokens that create_state issued at time 0
IssuedTokens ==
    {create_state(u, <<"int", d>>, 0, n).token :
        u \in Users, d \in {MinTtl, DefaultTtl}, n \in Nonces}

\* what a client without the secret can make of an issued token: another
\* signature, the payload of another user's token of the same expiry, another
\* header, a segment less or more
Tampered(token, others) ==
    {<<token[1], token[2], _b64e("garbage")>>,
     <<token[1], token[2], NonAsciiSegment>>,
     <<token[1], token[2], _b64e(hmac_sha256("guess", token[1] \o "." \o token[2]))>>,
     <<_b64e("{alg:none,typ:STATE}"), token[2], token[3]>>,
     <<token[1], _b64e("garbage"), token[3]>>,
     <<token[1], token[2]>>,
     <<token[1], token[2], token[3], "x">>}
    \cup {<<token[1], o[2], token[3]>> :
             o \in {x \in others : PayloadOf(x).exp = PayloadOf(token).exp}}

\* the state values a client presents: the tokens issued at time 0 and what
\* can be made of them, and the token that was just issued to it
Presentable ==
    IssuedTokens \cup UNION {Tampered(token, IssuedTokens \ {token}) : token \in IssuedTokens}

JustIssued ==
    IF last.op \in {"create_state", "auth_url"} /\ last.outcome = "ok"
    THEN {last.state} ELSE {}

\* the tokens of a holder of the key, given to verify_state alone: the
\* crafted payloads and a payload that does not decode, each correctly
\* signed, and the crafted payloads with signatures that do not match
CraftedTokens ==
    LET h == _b64e(header_json)
        segments == {PayloadSegment[payload] : payload \in CraftedPayloads}
                    \cup {_b64e("garbage")}
    IN  {<<h, p, _sign(h \o "." \o p)>> : p \in segments}
        \cup {<<h, p, _b64e("garbage")>> : p \in segments}
        \cup {<<h, p, NonAsciiSegment>> : p \in segments}

\* every state value of the model
StateTokens ==
    Presentable \cup CraftedTokens \cup {<<_b64e(header_json), PayloadSegment[payload],
                        _sign(_b64e(header_json) \o "." \o PayloadSegment[payload])>> :
                          payload \in StatePayloads}

(* ------------------------------- actions ------------------------------ *)

Suspend(req) ==
    /\ BagCardinality(inflight) < MaxInflight
    /\ inflight' = inflight (+) SetToBag({req})

Resume(req) ==
    /\ BagIn(req, inflight)
    /\ inflight' = inflight (-) SetToBag({req})

Req(op, user, refresh_token) == [op |-> op, user |-> user, refresh_token |-> refresh_token]

Tick ==
    /\ now < MaxTime
    /\ now' = now + 1
    /\ last' = Plain("tick", None, None)
    /\ UNCHANGED <<db, inflight>>
    /\ UNCHANGED aux

\* GET /auth/google/token: ensure_access_token to its return or to its await
TokenCall(u) ==
    LET e == ensure_begin(db, u, now) IN
    /\ last' = e
    /\ IF e.outcome = "await_refresh"
       THEN Suspend(Req("token", u, e.refresh_token))
       ELSE UNCHANGED inflight
    /\ UNCHANGED <<now, db>>
    /\ UNCHANGED aux

\* the token endpoint answers 200: persist and return the new access token
RefreshOk(u, rt, j) ==
    LET expires_at == skewed_expiry(now, j.expires_in)
        w == upsert_tokens(db, u, j.access_token, rt, expires_at, j.scope)
    IN  /\ Resume(Req("token", u, rt))
        /\ db' = w.db
        /\ last' = IF w.err # None THEN Plain("token_resumed", u, w.err)
                   ELSE Ev("token_resumed", u, "refreshed", j.access_token, rt,
                           expires_at, _scopes_list(j.scope))
        /\ UNCHANGED now
        /\ UNCHANGED aux

\* mutant: a failed refresh stores an empty access token
RefreshFail_blanks(u, rt) ==
    /\ Resume(Req("token", u, rt))
    /\ db' = upsert_tokens(db, u, "", rt, Dt(now), None).db
    /\ last' = Plain("token_resumed", u, "RuntimeError")
    /\ UNCHANGED now
    /\ UNCHANGED aux

\* the token endpoint answers non-200, or the call raises
RefreshFail(u, rt) ==
    /\ Resume(Req("token", u, rt))
    /\ last' = Plain("token_resumed", u, "RuntimeError")
    /\ UNCHANGED <<now, db>>
    /\ UNCHANGED aux

\* GET /auth/google/callback with a state that verifies for user u
CallbackCall(u) ==
    /\ Suspend(Req("callback", u, None))
    /\ last' = Plain("callback", u, "await_exchange")
    /\ UNCHANGED <<now, db>>
    /\ UNCHANGED aux

ExchangeOk(u, j) ==
    LET expires_at == skewed_expiry(now, j.expires_in)
        w == upsert_tokens(db, u, j.access_token, j.refresh_token, expires_at, j.scope)
    IN  /\ Resume(Req("callback", u, None))
        /\ IF ~Truthy(j.access_token)
           THEN /\ last' = Plain("callback_resumed", u, "no_access_token")
                /\ UNCHANGED db
           ELSE /\ db' = w.db
                /\ last' = IF w.err # None THEN Plain("callback_resumed", u, w.err)
                           ELSE Ev("callback_resumed", u, "connected", j.access_token,
                                   j.refresh_token, expires_at, <<>>)
        /\ UNCHANGED now
        /\ UNCHANGED aux

ExchangeFail(u) ==
    /\ Resume(Req("callback", u, None))
    /\ last' = Plain("callback_resumed", u, "exchange_failed")
    /\ UNCHANGED <<now, db>>
    /\ UNCHANGED aux

\* what revoke() does from clear_tokens on
revoke_finish(op, u) ==
    LET c == clear_tokens(db, u) IN
    /\ db' = c.db
    /\ last' = IF c.ret = "raise" THEN Plain(op, u, c.err)
               ELSE Plain(op, u, "existed_true")

\* POST /auth/google/revoke to its return or to its await of revoke_token
RevokeCall(u) ==
    LET found == query(db, u)
        row == CHOOSE r \in found : TRUE
        token_to_revoke ==
            IF Truthy(row.refresh_token_enc) THEN decrypt_str(row.refresh_token_enc)
            ELSE IF Truthy(row.access_token_enc) THEN decrypt_str(row.access_token_enc)
            ELSE None
    IN  /\ UNCHANGED now
        /\ UNCHANGED aux
        /\ IF Cardinality(found) > 1
           THEN /\ last' = Plain("revoke", u, "MultipleResultsFound")
                /\ UNCHANGED <<db, inflight>>
           ELSE IF found = {}
           THEN /\ last' = Plain("revoke", u, "existed_false")
                /\ UNCHANGED <<db, inflight>>
           ELSE IF Truthy(token_to_revoke)
           THEN /\ Suspend(Req("revoke", u, None))
                /\ last' = Plain("revoke", u, "await_revoke")
                /\ UNCHANGED db
           ELSE /\ revoke_finish("revoke", u)
                /\ UNCHANGED inflight

\* what the revocation endpoint may do, and what revoke_token makes of it
UpstreamOutcomes == {"200", "400", "503", "ConnectError"}

revoke_token(upstream) ==
    IF upstream = "ConnectError" THEN "raise"
    ELSE IF upstream \in {"200", "400"} THEN "True" ELSE "False"

\* revoke_token returned or raised: revoke() goes on to clear_tokens
RevokeReturn(u, upstream) ==
    LET c == clear_tokens(db, u) IN
    /\ Resume(Req("revoke", u, None))
    /\ db' = c.db
    /\ last' = [revoke_token |-> revoke_token(upstream)]
                @@ (IF c.ret = "raise" THEN Plain("revoke_resumed", u, c.err)
                    ELSE Plain("revoke_resumed", u, "existed_true"))
    /\ UNCHANGED now
    /\ UNCHANGED aux

(* the store driven directly through tokens.py, as a unit test drives it *)

UpsertArgs ==
    [access_token : AccessTokens,
     refresh_token : RefreshTokens \cup {None},
     lifetime : {NoDate} \cup {Dt(e) : e \in ExpiresIns},
     scope : ScopeStrings \cup {None}]

Upsert(u, a) ==
    LET expires_at == IF a.lifetime = NoDate THEN NoDate
                      ELSE skewed_expiry(now, a.lifetime[1])
        w == upsert_tokens(db, u, a.access_token, a.refresh_token, expires_at, a.scope)
    IN  /\ db' = w.db
        /\ last' = IF w.err # None THEN Plain("upsert", u, w.err)
                   ELSE Ev("upsert", u, "ok", a.access_token, a.refresh_token, expires_at, <<>>)
        /\ UNCHANGED <<now, inflight, _counters, window_calls, retry_at, accepted_state>>

Clear(u) ==
    LET c == clear_tokens(db, u) IN
    /\ db' = c.db
    /\ last' = [Plain("clear", u, IF c.ret = "raise" THEN c.err ELSE c.ret)
                   EXCEPT !.again = (last.op = "clear" /\ last.user = u)]
    /\ UNCHANGED <<now, inflight, _counters, window_calls, retry_at, accepted_state>>

(* the rate limiter and the guarded GET /auth/google/token *)

\* the clock moves on to time t; a window boundary passed is a new window
Elapse(t) ==
    /\ now < t
    /\ now' = t
    /\ window_calls' =
           IF t \div RATE_LIMIT_WINDOW_SECONDS # now \div RATE_LIMIT_WINDOW_SECONDS
           THEN [k \in DOMAIN window_calls |-> <<0, 0>>]
           ELSE window_calls
    /\ last' = Plain("elapse", None, None)
    /\ UNCHANGED <<db, inflight, _counters, retry_at, accepted_state>>

\* int(text) of the decimal text of a Retry-After header
int_of(text) == CHOOSE n \in 0..(LimitHorizon + RATE_LIMIT_WINDOW_SECONDS) : ToString(n) = text

\* the observers after the call of _bump on key that returned r
Observed(wc, key, r) ==
    IF key \in DOMAIN wc
    THEN [wc EXCEPT ![key] = <<@[1] + 1, @[2] + (IF r.status = 200 THEN 1 ELSE 0)>>]
    ELSE wc

Hinted(ra, key, r, t) ==
    IF key \in DOMAIN ra /\ r.status = 429
    THEN [ra EXCEPT ![key] = Dt(t + int_of(r.retry_after))]
    ELSE ra

Calls(key) == IF key \in DOMAIN window_calls THEN window_calls[key][1] ELSE 0

max_requests(key) ==
    IF key[1] = "key" THEN RATE_LIMIT_MAX_PER_KEY ELSE RATE_LIMIT_MAX_PER_USER

\* check_and_increment: one call of _bump on a key, with the settings' limits
CheckAndIncrement(key) ==
    LET r == _bump(_counters, key, max_requests(key), RATE_LIMIT_WINDOW_SECONDS, now) IN
    /\ Calls(key) < MaxCalls
    /\ _counters' = r.counters
    /\ window_calls' = Observed(window_calls, key, r)
    /\ retry_at' = Hinted(retry_at, key, r, now)
    /\ last' = [key |-> key, status |-> r.status, retry_after |-> r.retry_after]
                @@ Plain("check_and_increment", None,
                         IF r.status = 429 THEN "RateLimitExceeded" ELSE "ok")
    /\ UNCHANGED <<now, db, inflight, accepted_state>>

\* the status that token() answers with; 0 while it awaits the refresh
token_status(outcome) ==
    CASE outcome \in {"fresh", "refreshed"} -> 200
      [] outcome = "TokenNotFound" -> 404
      [] outcome = "ReconnectRequired" -> 409
      [] outcome = "await_refresh" -> 0
      [] OTHER -> 500

\* GET /auth/google/token as a client sends it: the dependencies
\* require_internal, limit_by_api_key, limit_by_user in this order, then
\* token() to its return or to its await
GetToken(x_api_key, client_ip, u) ==
    LET auth == require_internal(x_api_key, client_ip)
        k1 == <<"key", x_api_key>>
        k2 == <<"user", x_api_key, u>>
        r1 == limit_by_api_key(_counters, x_api_key, now)
        r2 == limit_by_user(r1.counters, u, x_api_key, now)
        e == ensure_begin(db, u, now)
        sent(by, status, retry_after) ==
            [x_api_key |-> x_api_key, client_ip |-> client_ip, by |-> by,
             status |-> status, retry_after |-> retry_after]
    IN  /\ Calls(k1) < MaxCalls
        /\ Calls(k2) < MaxCalls
        /\ UNCHANGED <<now, db, accepted_state>>
        /\ IF auth # 200
           THEN /\ last' = sent("require_internal", auth, None)
                            @@ Plain("GetToken", u, "HTTPException")
                /\ UNCHANGED <<_counters, window_calls, retry_at, inflight>>
           ELSE IF r1.status # 200
           THEN /\ _counters' = r1.counters
                /\ window_calls' = Observed(window_calls, k1, r1)
                /\ retry_at' = Hinted(retry_at, k1, r1, now)
                /\ last' = sent("limit_by_api_key", r1.status, r1.retry_after)
                            @@ Plain("GetToken", u, "RateLimitExceeded")
                /\ UNCHANGED inflight
           ELSE IF r2.status # 200
           THEN /\ _counters' = r2.counters
                /\ window_calls' = Observed(Observed(window_calls, k1, r1), k2, r2)
                /\ retry_at' = Hinted(retry_at, k2, r2, now)
                /\ last' = sent("limit_by_user", r2.status, r2.retry_after)
                            @@ Plain("GetToken", u, "RateLimitExceeded")
                /\ UNCHANGED inflight
           ELSE /\ _counters' = r2.counters
                /\ window_calls' = Observed(Observed(window_calls, k1, r1), k2, r2)
                /\ UNCHANGED retry_at
                /\ last' = sent("token", token_status(e.outcome), None) @@ e
                /\ IF e.outcome = "await_refresh"
                   THEN Suspend(Req("token", u, e.refresh_token))
                   ELSE UNCHANGED inflight

(* google_oauth.py driven directly: the two grants *)

RefreshCall(refresh_token) ==
    LET b == refresh_access_token_begin(refresh_token) IN
    /\ last' = Ev("refresh", None, b, None, refresh_token, NoDate, <<>>)
    /\ IF b = "await"
       THEN Suspend(Req("refresh", None, refresh_token))
       ELSE UNCHANGED inflight
    /\ UNCHANGED <<now, db>>
    /\ UNCHANGED aux

RefreshReturn(refresh_token, resp) ==
    LET e == grant_end(resp, now) IN
    /\ Resume(Req("refresh", None, refresh_token))
    /\ last' = [status |-> resp.status, expires_in |-> resp.expires_in]
                @@ Ev("refresh_resumed", None, IF e.error = None THEN "ok" ELSE e.error,
                      e.access_token, refresh_token, e.expires_at, <<>>)
    /\ UNCHANGED <<now, db>>
    /\ UNCHANGED aux

ExchangeCall ==
    LET b == IF _ensure_client_config # None THEN "RuntimeError" ELSE "await" IN
    /\ IF b = "await"
       THEN Suspend(Req("exchange", None, None))
       ELSE UNCHANGED inflight
    /\ last' = Plain("exchange", None, b)
    /\ UNCHANGED <<now, db>>
    /\ UNCHANGED aux

ExchangeReturn(resp) ==
    LET e == grant_end(resp, now) IN
    /\ Resume(Req("exchange", None, None))
    /\ last' = [status |-> resp.status, expires_in |-> resp.expires_in]
                @@ Ev("exchange_resumed", None, IF e.error = None THEN "ok" ELSE e.error,
                      e.access_token, None, e.expires_at, <<>>)
    /\ UNCHANGED <<now, db>>
    /\ UNCHANGED aux

(* state tokens and the callback that presents them; the codes that these
   callbacks carry are refused by the authorization server *)

\* create_state called with a ttl
CreateState(u, ttl_seconds, n) ==
    LET c == create_state(u, ttl_seconds, now, n) IN
    /\ last' = [state |-> c.token, ttl_seconds |-> ttl_seconds]
                @@ Plain("create_state", u, IF c.error = None THEN "ok" ELSE c.error)
    /\ UNCHANGED <<now, db, inflight>>
    /\ UNCHANGED aux

\* GET /auth/google/url: build_consent_url with its create_state(user_id)
AuthUrl(u, n) ==
    LET c == create_state(u, <<"int", DefaultTtl>>, now, n) IN
    /\ last' = [state |-> c.token] @@ Plain("auth_url", u, "ok")
    /\ UNCHANGED <<now, db, inflight>>
    /\ UNCHANGED aux

\* verify_state called with the default leeway
VerifyState(state) ==
    LET v == verify_state(state, Leeway, now) IN
    /\ state \in Presentable \cup JustIssued \cup CraftedTokens
    /\ last' = [state |-> state, payload |-> v.payload]
                @@ Plain("verify_state", None, IF v.error = None THEN "ok" ELSE v.error)
    /\ UNCHANGED <<now, db, inflight>>
    /\ UNCHANGED aux

\* GET /auth/google/callback as a client sends it, to its first raise or to
\* its await of exchange_code_for_tokens; the observer may pick an accepted
\* token, of those issued at time 0, to follow
Callback(state) ==
    LET v == verify_state(state, Leeway, now) IN
    /\ state \in Presentable \cup JustIssued
    /\ UNCHANGED <<now, db, _counters, window_calls, retry_at>>
    /\ IF v.error # None
       THEN /\ last' = [state |-> state] @@ Plain("callback", None, v.error)
            /\ UNCHANGED <<inflight, accepted_state>>
       ELSE /\ Suspend(Req("callback", v.payload.u, None))
            /\ last' = [state |-> state] @@ Plain("callback", v.payload.u, "await_exchange")
            /\ accepted_state' \in {accepted_state} \cup ({state} \cap IssuedTokens)

\* u0's callback was served at time 0: a 61 s access token, no refresh token
Init ==
    /\ now = 0
    /\ db = upsert_tokens({}, "u0", "A1", None, skewed_expiry(0, 61), None).db
    /\ inflight = EmptyBag
    /\ last = Plain("init", None, None)
    /\ _counters = <<>>
    /\ window_calls = [k \in LimiterKeys |-> <<0, 0>>]
    /\ retry_at = [k \in LimiterKeys |-> NoDate]
    /\ accepted_state = <<>>

Next ==
    \/ Tick
    \/ \E u \in Users : TokenCall(u)
    \/ \E u \in Users, rt \in RefreshTokens, j \in RefreshJson : RefreshOk(u, rt, j)
    \/ \E u \in Users, rt \in RefreshTokens : RefreshFail(u, rt)
    \/ \E u \in Consenting : CallbackCall(u)
    \/ \E u \in Consenting, j \in TokenJson : ExchangeOk(u, j)
    \/ \E u \in Consenting : ExchangeFail(u)
    \/ \E u \in Users : RevokeCall(u)
    \/ \E u \in Users, upstream \in UpstreamOutcomes : RevokeReturn(u, upstream)

Spec == Init /\ [][Next]_vars

NextStore ==
    \/ Next
    \/ \E u \in Consenting, a \in UpsertArgs : Upsert(u, a)
    \/ \E u \in Users : Clear(u)

SpecStore == Init /\ [][NextStore]_vars

NextLimit ==
    \/ \E t \in 0..LimitHorizon : Elapse(t)
    \/ \E key \in LimiterKeys : CheckAndIncrement(key)
    \/ \E x_api_key \in ApiKeys, client_ip \in ClientIps, u \in Users :
          GetToken(x_api_key, client_ip, u)

SpecLimit == Init /\ [][NextLimit]_vars

NextState ==
    \/ \E t \in StateClock : Elapse(t)
    \/ \E u \in Users \cup {""}, ttl_seconds \in TtlInputs, n \in Nonces :
          CreateState(u, ttl_seconds, n)
    \/ \E u \in Users, n \in Nonces : AuthUrl(u, n)
    \/ \E state \in StateTokens : VerifyState(state)
    \/ \E state \in StateTokens : Callback(state)
    \/ \E u \in Users : ExchangeFail(u)

SpecState == Init /\ [][NextState]_vars

\* the callbacks of clients with their state tokens, and the answers of the
\* authorization server to the codes they carry
CallbackClock == {36}

CallbackJson ==
    {j \in TokenJson : j.expires_in = 61 /\ j.scope = None
                        /\ j.access_token \in {"A1", None}
                        /\ j.refresh_token \in {"R1", None}}

NextCallback ==
    \/ \E t \in CallbackClock : Elapse(t)
    \/ \E state \in StateTokens : Callback(state)
    \/ \E u \in Users, j \in CallbackJson : ExchangeOk(u, j)
    \/ \E u \in Users : ExchangeFail(u)

SpecCallback == Init /\ [][NextCallback]_vars

NextGrant ==
    \/ Tick
    \/ \E refresh_token \in RefreshTokens \cup {None, ""} : RefreshCall(refresh_token)
    \/ \E refresh_token \in RefreshTokens, resp \in GrantResponses :
          RefreshReturn(refresh_token, resp)
    \/ ExchangeCall
    \/ \E resp \in GrantResponses : ExchangeReturn(resp)

SpecGrant == Init /\ [][NextGrant]_vars

(* ------------------------------- claims ------------------------------- *)

\* the rows the table holds for user u
Stored(t, u) == {r \in t : r.user_id = u}

\* C1: whenever ensure_access_token returns a token, from the stored record or
\* after a refresh, the returned expires_at is more than the 30 s skew after
\* the time of return.
C1_ReturnedTokenOutsideSkew ==
    (last.op \in {"token", "token_resumed"} /\ last.outcome \in {"fresh", "refreshed"}
       /\ last.access_token \in AccessTokens)
        => (last.expires_at # NoDate /\ last.expires_at[1] - now > 30)

\* C2: when the refresh of a stale record, whose refresh token was R1 when the
\* call read it, answers with a new access token A2, the stored record holds
\* A2 and the new expiry, its refresh token decrypts to R1, and A2 is returned.
C2_RefreshPreservesRefreshToken ==
    (last.op = "token_resumed" /\ last.outcome = "refreshed" /\ Truthy(last.access_token))
        => /\ Stored(db, last.user) # {}
           /\ \A r \in Stored(db, last.user) :
                  /\ decrypt_str(r.access_token_enc) = last.access_token
                  /\ r.expires_at = last.expires_at
                  /\ decrypt_str(r.refresh_token_enc) = last.refresh_token
                  /\ last.refresh_token \in RefreshTokens

\* C2 happens: a refresh that read R1 from the record has returned A2.
C2_Witness ==
    /\ last.op = "token_resumed"
    /\ last.outcome = "refreshed"
    /\ last.access_token = "A2"
    /\ last.refresh_token = "R1"

\* C3: a call of ensure_access_token on a record whose expires_at is more than
\* 30 s ahead returns the stored access token and expiry, suspends in no
\* network call and leaves the table as it was.
C3_FreshShortCircuit ==
    [][\A r \in db :
          (last'.op = "token" /\ last'.user = r.user_id
             /\ r.expires_at # NoDate /\ r.expires_at[1] - now > 30)
          => /\ last'.outcome = "fresh"
             /\ last'.access_token = decrypt_str(r.access_token_enc)
             /\ last'.expires_at = r.expires_at
             /\ db' = db
             /\ inflight' = inflight]_vars

C3_Witness ==
    /\ last.op = "token"
    /\ last.outcome = "fresh"
    /\ last.user = "u1"
    /\ last.access_token \in AccessTokens
    /\ inflight # EmptyBag

\* C4: a call of ensure_access_token for a user without a record fails with
\* TokenNotFound, suspends in no network call and creates no record.
C4_NotFound ==
    [][\A u \in Users :
          (last'.op = "token" /\ last'.user = u /\ Stored(db, u) = {})
          => /\ last'.outcome = "TokenNotFound"
             /\ db' = db
             /\ inflight' = inflight]_vars

C4_Witness ==
    /\ last.op = "token"
    /\ last.outcome = "TokenNotFound"
    /\ Stored(db, last.user) = {}

\* C5: a call of ensure_access_token on a record that is expired or within
\* 30 s of expiry and holds no refresh token fails with ReconnectRequired,
\* suspends in no network call and leaves the table as it was.
C5_UnrefreshableStale ==
    [][\A r \in db :
          (last'.op = "token" /\ last'.user = r.user_id
             /\ r.expires_at # NoDate /\ r.expires_at[1] - now <= 30
             /\ r.refresh_token_enc \in {"", None})
          => /\ last'.outcome = "ReconnectRequired"
             /\ db' = db
             /\ inflight' = inflight]_vars

C5_Witness ==
    /\ last.op = "token"
    /\ last.outcome = "ReconnectRequired"
    /\ \E r \in Stored(db, last.user) :
          r.expires_at # NoDate /\ r.expires_at[1] - now = 30

\* C6: a call of ensure_access_token on a record without expires_at is never
\* served from the stored token: it suspends in a refresh call when a refresh
\* token is stored and fails with ReconnectRequired when none is.
C6_AbsentExpiryIsStale ==
    [][\A r \in db :
          (last'.op = "token" /\ last'.user = r.user_id /\ r.expires_at = NoDate)
          => /\ last'.outcome # "fresh"
             /\ r.refresh_token_enc \notin {"", None}
                   => /\ last'.outcome = "await_refresh"
                      /\ BagCardinality(inflight') = BagCardinality(inflight) + 1
                      /\ BagIn([op |-> "token", user |-> r.user_id,
                                refresh_token |-> decrypt_str(r.refresh_token_enc)],
                               inflight')
             /\ r.refresh_token_enc \in {"", None}
                   => /\ last'.outcome = "ReconnectRequired"
                      /\ inflight' = inflight]_vars

C6_Witness ==
    /\ last.op = "token"
    /\ last.outcome = "await_refresh"
    /\ \E r \in Stored(db, last.user) :
          r.expires_at = NoDate /\ r.refresh_token_enc = encrypt_str("R1")

\* C7: the table never holds two records with the same user_id, whatever the
\* order in which upserts, clears, callbacks, refreshes and revokes run.
C7_OneRecordPerUser ==
    \A r1, r2 \in db : r1.user_id = r2.user_id => r1 = r2

\* C7 happens: a refresh wrote u1's record while another request was in
\* flight, and both users have their record.
C7_Witness ==
    /\ last.op = "token_resumed"
    /\ last.outcome = "refreshed"
    /\ inflight # EmptyBag
    /\ \A u \in Users : Cardinality(Stored(db, u)) = 1

\* C8: an upsert on an existing record stores the supplied access token and
\* expiry, stores the supplied refresh token when one is supplied and keeps
\* the stored refresh token when none is.
C8_UpsertOnExisting ==
    [][\A r \in db :
          (/\ last'.user = r.user_id
           /\ \/ last'.op = "upsert" /\ last'.outcome = "ok"
              \/ last'.op = "callback_resumed" /\ last'.outcome = "connected"
              \/ last'.op = "token_resumed" /\ last'.outcome = "refreshed")
          => /\ Stored(db', r.user_id) # {}
             /\ \A w \in Stored(db', r.user_id) :
                    /\ decrypt_str(w.access_token_enc) = last'.access_token
                    /\ w.expires_at = last'.expires_at
                    /\ IF last'.refresh_token \in RefreshTokens
                       THEN decrypt_str(w.refresh_token_enc) = last'.refresh_token
                       ELSE w.refresh_token_enc = r.refresh_token_enc]_vars

\* C8 happens: the callback upserted without a refresh token and the record
\* still holds the refresh token it had.
C8_Witness ==
    /\ last.op = "callback_resumed"
    /\ last.outcome = "connected"
    /\ last.refresh_token = None
    /\ \E r \in Stored(db, last.user) : decrypt_str(r.refresh_token_enc) \in RefreshTokens

\* C9: clear_tokens returns false and changes nothing when the user has no
\* record; when the user has one it returns true and the record remains, with
\* its access token, refresh token and expiry absent.
C9_ClearBlanksAndKeepsRow ==
    [][\A u \in Users :
          (last'.op = "clear" /\ last'.user = u)
          => IF Stored(db, u) = {}
             THEN last'.outcome = "False" /\ db' = db
             ELSE /\ last'.outcome = "True"
                  /\ Cardinality(Stored(db', u)) = 1
                  /\ \A w \in Stored(db', u) :
                         /\ w.access_token_enc = None
                         /\ w.refresh_token_enc = None
                         /\ w.expires_at = NoDate]_vars

Min(a, b) == IF a <= b THEN a ELSE b

\* the step made a call of _bump on key k, and the call passed
Called(k) == window_calls'[k][1] = window_calls[k][1] + 1

Passed(k) == window_calls'[k][2] = window_calls[k][2] + 1

\* the first window boundary after time t
NextBoundary(t) == (t \div RATE_LIMIT_WINDOW_SECONDS + 1) * RATE_LIMIT_WINDOW_SECONDS

\* C11: for every limiter key, of the calls made since the last window
\* boundary the first `limit` have succeeded and every further one has failed:
\* the calls that passed are min(calls made, limit), from 0 again after each
\* boundary, so the first call after a boundary succeeds.
C11_FixedWindow ==
    \A k \in LimiterKeys :
        window_calls[k][2] = Min(window_calls[k][1], max_requests(k))

\* C11 happens: a key that was rejected in an earlier window has its first
\* call of a later window accepted
C11_Witness ==
    /\ last.op = "check_and_increment"
    /\ last.outcome = "ok"
    /\ now >= RATE_LIMIT_WINDOW_SECONDS
    /\ window_calls[last.key] = <<1, 1>>
    /\ retry_at[last.key] # NoDate

\* C12: a call rejected at time now carries the hint
\* window_start + window_seconds - now, the seconds to the next boundary,
\* between 1 and window_seconds; and a call made on the same key at the time
\* the hint points to succeeds.
C12_RetryHintThenSuccess ==
    [][\A k \in LimiterKeys :
          /\ (Called(k) /\ ~Passed(k))
                => /\ last'.retry_after = ToString(NextBoundary(now) - now)
                   /\ NextBoundary(now) - now \in 1..RATE_LIMIT_WINDOW_SECONDS
          /\ (Called(k) /\ retry_at[k] = Dt(now)) => Passed(k)]_vars

\* C12 amended: the hint is as stated, and a call made on the same key at the
\* time the hint points to succeeds when fewer than `limit` calls were made on
\* the key since that window boundary.
C12_RetryHintThenWindowOpen ==
    [][\A k \in LimiterKeys :
          /\ (Called(k) /\ ~Passed(k))
                => /\ last'.retry_after = ToString(NextBoundary(now) - now)
                   /\ NextBoundary(now) - now \in 1..RATE_LIMIT_WINDOW_SECONDS
          /\ (Called(k) /\ retry_at[k] = Dt(now)
                /\ window_calls[k][1] < max_requests(k)) => Passed(k)]_vars

\* C12 happens: a call made at the time a retry hint pointed to has succeeded
C12_Witness ==
    /\ last.op = "check_and_increment"
    /\ last.status = 200
    /\ retry_at[last.key] = Dt(now)

\* the addresses that the settings let in
AllowedClientIps == {"10.0.0.1", "192.0.2.7"}

\* key k has had its `limit` calls since the last window boundary
Exhausted(k) == k \in LimiterKeys /\ window_calls[k][1] >= max_requests(k)

\* C13: a GET /auth/google/token request reaches ensure_access_token only
\* when it carries the shared secret from an allowed address and neither its
\* per-caller nor its per-(caller, user) limiter is exhausted; an
\* authenticated request with either limiter exhausted is answered 429
\* RateLimitExceeded and neither the store nor the network is touched.
C13_TokenBehindGuards ==
    [][last'.op \in {"token", "GetToken"} =>
          LET authed == /\ last'.x_api_key = API_INTERNAL_KEY
                        /\ last'.client_ip \in AllowedClientIps
              k1 == <<"key", last'.x_api_key>>
              k2 == <<"user", last'.x_api_key, last'.user>>
          IN  /\ last'.op = "token"
                    => authed /\ ~Exhausted(k1) /\ ~Exhausted(k2)
              /\ (authed /\ (Exhausted(k1) \/ Exhausted(k2)))
                    => /\ last'.op = "GetToken"
                       /\ last'.outcome = "RateLimitExceeded"
                       /\ last'.status = 429
                       /\ UNCHANGED <<db, inflight>>]_vars

\* C13 happens: the per-caller limiter let a request through and the
\* per-(caller, user) limiter rejected it
C13_Witness ==
    /\ last.op = "GetToken"
    /\ last.by = "limit_by_user"
    /\ last.status = 429

\* C14: whatever the order in which N calls on a key arrive inside one
\* window, the stored count of the key is N and at most `limit` of them
\* passed.
C14_NoLostIncrement ==
    \A k \in LimiterKeys :
        window_calls[k][1] > 0
            => /\ k \in DOMAIN _counters
               /\ _counters[k] = <<now - (now % RATE_LIMIT_WINDOW_SECONDS), window_calls[k][1]>>
               /\ window_calls[k][2] <= max_requests(k)

\* C14 happens: more calls than the limit were made on a key in one window,
\* through GET /auth/google/token and through direct calls alike
C14_Witness ==
    \E u \in Users :
        /\ window_calls[<<"user", API_INTERNAL_KEY, u>>][1] > RATE_LIMIT_MAX_PER_USER + 1
        /\ window_calls[<<"key", API_INTERNAL_KEY>>][1] > RATE_LIMIT_MAX_PER_KEY

(* ----------------------- claims on the state tokens ------------------- *)

\* C15: when verify_state is applied to the token that create_state has just
\* returned for a non-empty user_id and any ttl, with the clock where it was,
\* it succeeds and the payload it returns carries that user_id.
C15_RoundTrip ==
    [][(/\ last.op = "create_state" /\ last.outcome = "ok"
        /\ last'.op = "verify_state" /\ last'.state = last.state
        /\ now' = now)
          => /\ last'.outcome = "ok"
             /\ last'.payload.u = last.user]_vars

\* C15 happens: a token created with a ttl of 31, at a time after 0, was
\* verified at once
C15_Witness ==
    /\ last.op = "verify_state"
    /\ last.outcome = "ok"
    /\ now > 0
    /\ last.payload.iat = now
    /\ last.payload.exp = now + 31
    /\ last.payload.u = "u1"

\* C16: verify_state rejects with "Invalid state signature" every token of
\* three segments whose third segment is not the keyed hash of the text
\* header.payload, and returns no payload for it.
C16_BadSignatureRejected ==
    [][(/\ last'.op = "verify_state"
        /\ Len(last'.state) = 3
        /\ last'.state[3] # _sign(last'.state[1] \o "." \o last'.state[2]))
          => /\ last'.outcome = "Invalid state signature"
             /\ last'.payload = <<>>]_vars

\* C17: a token issued by create_state, whose payload carries expiry exp, is
\* accepted by verify_state at every time now with now - exp <= leeway and
\* rejected with "State expired" at every time now with now - exp > leeway.
C17_ExpiryWithLeeway ==
    [][(/\ last'.op = "verify_state"
        /\ Len(last'.state) = 3
        /\ last'.state[3] = _sign(last'.state[1] \o "." \o last'.state[2])
        /\ payload_loads(last'.state[2]).ok
        /\ PayloadOf(last'.state) \in StatePayloads)
          => IF now - PayloadOf(last'.state).exp <= Leeway
             THEN last'.outcome = "ok"
             ELSE last'.outcome = "State expired"]_vars

\* C17 happens: a token created with ttl 30 was verified 30 + leeway + 1
\* seconds later
C17_Witness ==
    /\ last.op = "verify_state"
    /\ last.outcome = "State expired"
    /\ PayloadOf(last.state).exp - PayloadOf(last.state).iat = 30
    /\ now = PayloadOf(last.state).iat + 30 + Leeway + 1

\* C18: the token that create_state issues has exp - iat of at least 30, and
\* of exactly ttl when the ttl passed is an integer of 30 or more.
C18_TtlFloor ==
    [][(last'.op = "create_state" /\ last'.outcome = "ok")
          => LET payload == PayloadOf(last'.state) IN
             /\ payload.exp - payload.iat >= 30
             /\ (last'.ttl_seconds[1] = "int" /\ last'.ttl_seconds[2] >= 30)
                   => payload.exp - payload.iat = last'.ttl_seconds[2]]_vars

\* C18 happens: a token was issued for a ttl below the floor
C18_Witness ==
    /\ last.op = "create_state"
    /\ last.outcome = "ok"
    /\ last.ttl_seconds = <<"int", 29>>
    /\ PayloadOf(last.state).exp - PayloadOf(last.state).iat = 30

\* C19: once a callback has accepted a state token, no later callback that
\* presents the same token is accepted.
C19_StateConsumedOnce ==
    [][(/\ accepted_state # <<>>
        /\ last'.op = "callback"
        /\ last'.state = accepted_state)
          => last'.outcome # "await_exchange"]_vars

(* ---------------------------- claims on revoke ------------------------ *)

\* C20: revoke() for a user with a record ends, whether revoke_token returned
\* true, returned false or raised, with revoked=true, existed=true and the
\* token fields of the record cleared; revoke() for a user without a record
\* returns revoked=true, existed=false and awaits no upstream call.
C20_RevokeClearsWhateverUpstream ==
    [][/\ (last'.op = "revoke" /\ Stored(db, last'.user) = {})
            => /\ last'.outcome = "existed_false"
               /\ UNCHANGED <<db, inflight>>
       /\ (/\ last'.op \in {"revoke", "revoke_resumed"}
           /\ last'.outcome # "await_revoke"
           /\ Stored(db, last'.user) # {})
            => /\ last'.outcome = "existed_true"
               /\ \A r \in Stored(db', last'.user) :
                      /\ ~Truthy(r.access_token_enc)
                      /\ ~Truthy(r.refresh_token_enc)
                      /\ r.expires_at = NoDate]_vars

(* ------------------- claims on revoke and concurrent calls ------------ *)

\* the store holds no access or refresh token of user u that decrypts
NoUsable(t, u) ==
    \A r \in Stored(t, u) :
        /\ ~Truthy(decrypt_str(r.access_token_enc))
        /\ ~Truthy(decrypt_str(r.refresh_token_enc))

\* C21: when revoke() ends for a user, the store holds no usable access or
\* refresh token of that user, and a user without usable tokens gets one only
\* by a consent callback of that user that succeeds, whatever else is in
\* flight.
C21_RevokedUntilReconnect ==
    [][\A u \in Users :
          /\ (/\ last'.op \in {"revoke", "revoke_resumed"}
              /\ last'.user = u
              /\ last'.outcome # "await_revoke")
                => NoUsable(db', u)
          /\ (/\ NoUsable(db, u)
              /\ ~(/\ last'.op = "callback_resumed"
                   /\ last'.user = u
                   /\ last'.outcome = "connected"))
                => NoUsable(db', u)]_vars

\* C22: when two ensure_access_token calls for one stale, refreshable user
\* are in flight together, each returns a token with more than the skew left
\* at its return, and after each write the record holds the access token and
\* expiry of that write together with the refresh token the calls read.
C22_InterleavedRefreshes ==
    [][(/\ last'.op = "token_resumed"
        /\ last'.outcome = "refreshed"
        /\ Truthy(last'.access_token)
        /\ \/ BagIn(Req("token", last'.user, last'.refresh_token), inflight')
           \/ (/\ last.op = "token_resumed" /\ last.outcome = "refreshed"
               /\ last.user = last'.user))
          => /\ last'.expires_at[1] - now > Skew
             /\ \A r \in Stored(db', last'.user) :
                    /\ decrypt_str(r.access_token_enc) = last'.access_token
                    /\ r.expires_at = last'.expires_at
                    /\ decrypt_str(r.refresh_token_enc) = last'.refresh_token]_vars

(* --------------------------- claims on the grants --------------------- *)

\* C23: exchange_code_for_tokens and refresh_access_token return expires_at
\* equal to the time of the response plus the declared lifetime minus 30
\* seconds, for every declared lifetime of 0 or more.
C23_ExpiryIsLifetimeMinusSkew ==
    [][(last'.op \in {"refresh_resumed", "exchange_resumed"} /\ last'.outcome = "ok")
          => last'.expires_at = Dt(now + last'.expires_in - 30)]_vars

\* C23 amended: they return expires_at equal to the time of the response
\* plus the declared lifetime minus 30 seconds for every declared lifetime of
\* 30 or more, and equal to the time of the response for every declared
\* lifetime from 0 to 30.
C23_ExpiryIsClampedAtResponse ==
    [][(last'.op \in {"refresh_resumed", "exchange_resumed"} /\ last'.outcome = "ok")
          => IF last'.expires_in >= 30
             THEN last'.expires_at = Dt(now + last'.expires_in - 30)
             ELSE last'.expires_at = Dt(now)]_vars

\* C23 happens: a grant answered after time 0 with a lifetime of 20 seconds
C23_Witness ==
    /\ last.op = "exchange_resumed"
    /\ last.outcome = "ok"
    /\ last.expires_in = 20
    /\ now > 0

\* C24: refresh_access_token called with an empty or absent refresh_token
\* raises ValueError and sends nothing; when the token endpoint answers with
\* a status other than 200 it raises RuntimeError.
C24_RefreshErrors ==
    [][/\ (last'.op = "refresh" /\ ~Truthy(last'.refresh_token))
            => /\ last'.outcome = "ValueError"
               /\ UNCHANGED inflight
       /\ (last'.op = "refresh_resumed" /\ last'.status # 200)
            => last'.outcome = "RuntimeError"]_vars

\* C24 happens: refresh_access_token was called with the empty string while
\* another refresh was waiting for the token endpoint
C24_Witness ==
    /\ last.op = "refresh"
    /\ last.refresh_token = ""
    /\ last.outcome = "ValueError"
    /\ inflight # EmptyBag

(* --------------------------- claims on the callback ------------------- *)

\* a state token that create_state issued and that has not expired at time t
\* (none of them is issued in the future)
Verifies(state, t) ==
    /\ state \in IssuedTokens
    /\ ~(t - PayloadOf(state).exp > 5)

\* C25: auth_callback verifies the state before anything else: when the state
\* does not verify the callback is rejected, no exchange is started and the
\* table is not written; a callback goes on to the exchange only for the
\* user_id of its verified state, and a callback that succeeds writes the
\* tokens to the record of the user_id its exchange was started for and to no
\* other record.
C25_StateBeforeExchange ==
    [][/\ (last'.op = "callback" /\ ~Verifies(last'.state, now))
            => /\ last'.outcome # "await_exchange"
               /\ UNCHANGED <<db, inflight>>
       /\ (last'.op = "callback" /\ last'.outcome = "await_exchange")
            => /\ Verifies(last'.state, now)
               /\ last'.user = PayloadOf(last'.state).u
               /\ inflight' = inflight (+) SetToBag({Req("callback", last'.user, None)})
               /\ UNCHANGED db
       /\ (last'.op = "callback_resumed" /\ last'.outcome = "connected")
            => /\ BagIn(Req("callback", last'.user, None), inflight)
               /\ \A u \in Users \ {last'.user} : Stored(db', u) = Stored(db, u)
               /\ Stored(db', last'.user) # {}
               /\ \A r \in Stored(db', last'.user) :
                     decrypt_str(r.access_token_enc) = last'.access_token]_vars

\* C25 happens: after time 0 a callback succeeded for u1, who had no record
C25_Witness ==
    /\ last.op = "callback_resumed"
    /\ last.outcome = "connected"
    /\ last.user = "u1"
    /\ Stored(db, "u1") # {}
    /\ now > 0

(* --------------------------- claims on the outcomes ------------------- *)

\* C26: when the authorization server rejects a refresh during GET
\* /auth/google/token, the caller gets a status other than the one that a
\* failed write of the table gives.
C26_RefreshRejectionDistinct ==
    [][(last'.op = "token_resumed" /\ last'.outcome = "RuntimeError")
          => token_status(last'.outcome) # token_status("IntegrityError")]_vars

(* ----------------------- claims on the order of checks ---------------- *)

\* the first check of the list (three segments, signature, payload decoding,
\* purpose, issued in the future, expired, missing user_id) that the token
\* fails at time t, by the message of its StateError; "ok" when it fails none
FirstFailedCheck(state, t) ==
    IF Len(state) # 3 THEN "Malformed state"
    ELSE IF state[3] # _sign(state[1] \o "." \o state[2]) THEN "Invalid state signature"
    ELSE IF ~payload_loads(state[2]).ok THEN "Invalid state payload"
    ELSE LET payload == PayloadOf(state) IN
         IF payload.p # "google_oauth" THEN "Unexpected state purpose"
         ELSE IF payload.iat - t > 5 THEN "State issued in the future"
         ELSE IF t - payload.exp > 5 THEN "State expired"
         ELSE IF payload.u = "" THEN "Missing user_id in state"
         ELSE "ok"

\* C27: verify_state reports the first check that the token fails, in the
\* order three segments, signature, payload decoding, purpose, issued in the
\* future, expired, missing user_id: a bad signature is reported whatever
\* the payload, an expired token without user_id is reported as expired.
C27_FirstFailedCheckReported ==
    [][last'.op = "verify_state" => last'.outcome = FirstFailedCheck(last'.state, now)]_vars

\* the same for the tokens whose signature segment is ASCII text
C27_FirstFailedCheckReportedAscii ==
    [][(last'.op = "verify_state" /\ (Len(last'.state) = 3 => isascii(last'.state[3])))
          => last'.outcome = FirstFailedCheck(last'.state, now)]_vars

\* a correctly signed token, expired and without user_id, was reported expired
C27_ExpiredBeforeMissingUser ==
    /\ last.op = "verify_state"
    /\ last.outcome = "State expired"
    /\ PayloadOf(last.state).u = ""

(* ----------------------- claims on failed refreshes ------------------- *)

\* C28: when the refresh that ensure_access_token awaits fails, the call ends
\* with that error, GET /auth/google/token answering 500, and the table is
\* what it was when the answer came: the access token, refresh token, expiry
\* and scopes of the record are unchanged.
C28_FailedRefreshLeavesRecord ==
    [][(last'.op = "token_resumed" /\ last'.outcome = "RuntimeError")
          => /\ token_status(last'.outcome) = 500
             /\ \E rt \in RefreshTokens :
                   /\ BagIn(Req("token", last'.user, rt), inflight)
                   /\ inflight' = inflight (-) SetToBag({Req("token", last'.user, rt)})
             /\ db' = db]_vars

\* C28 happens: the refresh for u1, whose record holds a refresh token,
\* failed
C28_Witness ==
    /\ last.op = "token_resumed"
    /\ last.outcome = "RuntimeError"
    /\ last.user = "u1"
    /\ \E r \in Stored(db, "u1") : Truthy(decrypt_str(r.refresh_token_enc))

(* ----------------------- claims on blanked records -------------------- *)

C30_ReturnedTokenPresent ==
    (last.op \in {"token", "token_resumed"} /\ last.outcome \in {"fresh", "refreshed"})
        => Truthy(last.access_token)

(* ----------------------- claims on the returned scopes ---------------- *)

\* C31: the scopes list that ensure_access_token returns, from the stored
\* record or after a refresh, is the list held in scopes_json of the user's
\* record when it returns.
C31_ScopesAsStored ==
    (last.op \in {"token", "token_resumed"} /\ last.outcome \in {"fresh", "refreshed"})
        => \A r \in Stored(db, last.user) : last.scopes = json_loads(r.scopes_json)

(* ----------------------- claims on the stored counters ---------------- *)

\* the count stored for key k in the window that holds time t, 0 when the
\* key has no entry or its entry is of an earlier window
CountInWindow(c, k, t) ==
    IF k \in DOMAIN c /\ c[k][1] = t - (t % RATE_LIMIT_WINDOW_SECONDS)
    THEN c[k][2] ELSE 0

\* C32: every call of _bump on a key, the rejected ones included, adds one to
\* the count stored for the key in the current window, which is then the
\* number of calls made on the key in the window, above the limit or not.
C32_RejectedCallsCounted ==
    [][\A k \in LimiterKeys :
          Called(k) => /\ CountInWindow(_counters', k, now)
                            = CountInWindow(_counters, k, now) + 1
                       /\ CountInWindow(_counters', k, now) = window_calls'[k][1]]_vars

\* C32 happens: a call was rejected and the count stored for its key is two
\* above the limit
C32_Witness ==
    /\ last.op = "check_and_increment"
    /\ last.outcome = "RateLimitExceeded"
    /\ CountInWindow(_counters, last.key, now) = max_requests(last.key) + 2

(* ----------------------- claims on rejected callers ------------------- *)

\* C33: a GET /auth/google/token request without the shared secret, with a
\* wrong one, or from an address that is not allowed, is answered 401 or 403
\* and leaves every counter of the limiter as it was; a request that changes
\* a counter has passed require_internal.
C33_RejectedCallerNotCounted ==
    [][last'.op \in {"token", "GetToken"} =>
          LET authed == /\ last'.x_api_key = API_INTERNAL_KEY
                        /\ last'.client_ip \in AllowedClientIps
          IN  /\ ~authed => /\ last'.op = "GetToken"
                            /\ last'.status \in {401, 403}
                            /\ _counters' = _counters
                            /\ \A k \in LimiterKeys : ~Called(k)
              /\ _counters' # _counters => authed]_vars

\* C33 happens: a request with the shared secret from an address that is not
\* allowed was rejected while the caller's counter of the window stood at 2
C33_Witness ==
    /\ last.op = "GetToken"
    /\ last.by = "require_internal"
    /\ last.status = 403
    /\ CountInWindow(_counters, <<"key", API_INTERNAL_KEY>>, now) = 2

====
